---- MODULE Spec2Model ----
(***************************************************************************)
(* Alchemy engine: operation registry, execution / marshalling pipeline,  *)
(* document conversion, field synthesis and the HTTP request handler.      *)
(*                                                                         *)
(* 64-bit integers are kept at their real width.  A 64-bit word is a       *)
(* sequence of four 16-bit limbs, most significant first, so that          *)
(* comparisons, casts and truncations are computed exactly.                *)
(***************************************************************************)
EXTENDS Integers, Sequences, FiniteSets, TLC

VARIABLES
    num_in,          \* convert_number: the JsonNumber being converted
    num_out,         \* convert_number: the Value produced, or None
    exec,            \* the query execution in progress (its parameters), or None
    binds,           \* the bind_var calls made on the query builder, in order
    warns,           \* the argument names reported by the WARN diagnostic
    store_calls,     \* how many times aql_query was called for this execution
    entries,         \* the store's reply, or None while the call is pending
    outcome,         \* what the execution returned to its caller, or None
    operation_data,  \* OperationRegistry.operation_data: entity name -> OperationData
    operations,      \* OperationRegistry.operations: operation key -> OperationEntry
    registrations,   \* how many register_entity calls were made
    field_call,      \* the field synthesis call made, or None
    built_fields,    \* the fields it built
    filter_in,       \* the attribute map a filter was built over, or None
    filter_out,      \* the filter built, or None
    phase,           \* "boot" until the schema is built, then "serving"
    schema_lock,     \* the request whose handler holds the schema mutex, or Free
    poisoned,        \* the schema mutex is poisoned
    pc,              \* where each request's handler is
    worker           \* the worker thread each request was routed to

None == [type |-> "None"]

(***************************************************************************)
(* Bounds                                                                  *)
(***************************************************************************)
\* limbs are sampled within NearEdge of the interesting 16-bit patterns
NearEdge == 0

(***************************************************************************)
(* 64-bit words as limbs                                                   *)
(***************************************************************************)
LimbBase == 2^16
LimbTop == LimbBase - 1             \* 0xFFFF
LimbSign == 2^15                    \* 0x8000

\* 16-bit patterns around which the limbs are sampled:
\* 0, 1, 0x2A05, 0x7FFF, 0x8000, 0xF200, 0xFFFE, 0xFFFF
LimbAnchors == {0, 1, 10757, LimbSign - 1, LimbSign, 61952, LimbTop - 1, LimbTop}

Limbs ==
    UNION { { x \in (a - NearEdge)..(a + NearEdge) : x >= 0 /\ x <= LimbTop }
            : a \in LimbAnchors }

Words == { <<a, b, c, d>> : a \in Limbs, b \in Limbs, c \in Limbs, d \in Limbs }

\* unsigned comparison of two 64-bit words
RECURSIVE ULess(_, _)
ULess(x, y) ==
    IF x = <<>> THEN FALSE
    ELSE IF Head(x) # Head(y) THEN Head(x) < Head(y)
    ELSE ULess(Tail(x), Tail(y))

\* the sign bit of a word read as i64
IsNegWord(x) == x[1] >= LimbSign

\* signed (two's complement) comparison of two 64-bit words
SLess(x, y) ==
    IF IsNegWord(x) # IsNegWord(y) THEN IsNegWord(x) ELSE ULess(x, y)

\* i32::MAX and i32::MIN as 32-bit values
I32Max == (LimbSign - 1) * LimbBase + LimbTop
I32Min == (-I32Max) - 1

\* `i32::MAX as i64` / `i32::MAX as u64`: zero extension of 0x7FFFFFFF
I32MaxWord == <<0, 0, LimbSign - 1, LimbTop>>
\* `i32::MIN as i64` / `i32::MIN as u64`: sign extension of 0x80000000
I32MinWord == <<LimbTop, LimbTop, LimbSign, 0>>

\* `v as i32`: truncation to the low 32 bits, read as two's complement
TruncI32(x) ==
    IF x[3] >= LimbSign THEN (x[3] - LimbBase) * LimbBase + x[4]
    ELSE x[3] * LimbBase + x[4]

(***************************************************************************)
(* serde_json::Number: PosInt(u64), NegInt(i64, always < 0), Float(f64)    *)
(***************************************************************************)
Floats == {"1.5", "-0.25", "1e300"}

JsonNumbers ==
    [kind : {"PosInt"}, n : Words]
        \cup [kind : {"NegInt"}, n : { w \in Words : IsNegWord(w) }]
        \cup [kind : {"Float"}, f : Floats]

\* Number::is_i64: a PosInt that fits i64, or any NegInt
is_i64(n) == \/ n.kind = "NegInt"
             \/ n.kind = "PosInt" /\ ~IsNegWord(n.n)

\* Number::is_u64: any PosInt
is_u64(n) == n.kind = "PosInt"

IntValue(i) == [type |-> "Int", i |-> i]
FloatValue(f) == [type |-> "Float", f |-> f]

\* the saturating branch on a signed 64-bit value
SaturateI64(v) ==
    IF SLess(I32MaxWord, v) THEN I32Max
    ELSE IF SLess(v, I32MinWord) THEN I32Min
    ELSE TruncI32(v)

\* the saturating branch on an unsigned 64-bit value
SaturateU64(v) ==
    IF ULess(I32MaxWord, v) THEN I32Max
    ELSE IF ULess(v, I32MinWord) THEN I32Min
    ELSE TruncI32(v)

\* a conversion that casts without saturating
WrappingNumber(n) ==
    IF is_i64(n) \/ is_u64(n) THEN IntValue(TruncI32(n.n)) ELSE FloatValue(n.f)

convert_number(n) ==
    IF is_i64(n) THEN IntValue(SaturateI64(n.n))
    ELSE IF is_u64(n) THEN IntValue(SaturateU64(n.n))
    ELSE FloatValue(n.f)


(***************************************************************************)
(* serde_json::Value and juniper::Value                                    *)
(***************************************************************************)
JNull == [j |-> "Null"]
JBool(b) == [j |-> "Bool", b |-> b]
JNumber(n) == [j |-> "Number", n |-> n]
JString(s) == [j |-> "String", s |-> s]
JArray(a) == [j |-> "Array", a |-> a]
\* an object is its entries in the map's iteration order: <<key, value>> pairs
JObject(o) == [j |-> "Object", o |-> o]

NullValue == [type |-> "Null"]
BoolValue(b) == [type |-> "Boolean", b |-> b]
StringValue(s) == [type |-> "String", s |-> s]
ListValue(l) == [type |-> "List", items |-> l]
ObjectValue(fields) == [type |-> "Object", fields |-> fields]

\* Option<T>
Some(x) == [some |-> TRUE, x |-> x]
Nothing == [some |-> FALSE]

\* JsonValue::as_object: Some(map) for an object, None for anything else
as_object(val) == IF val.j = "Object" THEN Some(val.o) ELSE Nothing

\* the inner fn convert and convert_json_to_juniper_value call each other
RECURSIVE convert(_), convert_json_to_juniper_value(_)
convert(val) ==
    CASE val.j = "Null" -> NullValue
      [] val.j = "Bool" -> BoolValue(val.b)
      [] val.j = "Number" -> convert_number(val.n)
      [] val.j = "String" -> StringValue(val.s)
      [] val.j = "Array" ->
            ListValue([i \in DOMAIN val.a |-> convert(val.a[i])])
      [] val.j = "Object" -> convert_json_to_juniper_value(val.o)

convert_json_to_juniper_value(data) ==
    ObjectValue([i \in DOMAIN data |-> <<data[i][1], convert(data[i][2])>>])

(***************************************************************************)
(* Field errors (errors.rs) and the outcome of an execution                *)
(***************************************************************************)
\* FieldError::new(message, Value::Null)
FieldError(message) == [message |-> message, extensions |-> NullValue]

\* NotFoundError::into_field_error: format!("{} not found", model)
NotFoundError(model) == FieldError([fmt |-> "{} not found", arg |-> model])

\* DatabaseError::into_field_error: the message as given
DatabaseError(message) == FieldError([fmt |-> "{}", arg |-> message])

Ok(v) == [res |-> "Ok", v |-> v]
Err(e) == [res |-> "Err", e |-> e]
Panic == [res |-> "Panic"]

(***************************************************************************)
(* Result shaping                                                          *)
(***************************************************************************)
\* a shaping that answers with the last document instead of the first
LastEntry(ents, entity_name) ==
    IF ents.res = "Ok"
    THEN IF ents.v # <<>>
         THEN IF ~as_object(ents.v[Len(ents.v)]).some THEN Panic
              ELSE Ok(convert_json_to_juniper_value(as_object(ents.v[Len(ents.v)]).x))
         ELSE Err(NotFoundError(entity_name))
    ELSE Err(DatabaseError(ents.e))

get_single_entry(ents, entity_name) ==
    IF ents.res = "Ok"
    THEN IF ents.v # <<>>
         THEN \* data.first() is Some: first.as_object().unwrap()
              IF ~as_object(Head(ents.v)).some THEN Panic
              ELSE Ok(convert_json_to_juniper_value(as_object(Head(ents.v)).x))
         ELSE Err(NotFoundError(entity_name))
    ELSE Err(DatabaseError(ents.e))

\* a shaping that treats an empty list like the single mode does
EmptyIsError(ents) ==
    IF ents.res = "Ok"
    THEN IF \E i \in DOMAIN ents.v : ~as_object(ents.v[i]).some THEN Panic
         ELSE IF ents.v = <<>> THEN Err(NotFoundError(""))
         ELSE Ok(ListValue([i \in DOMAIN ents.v |->
                    convert_json_to_juniper_value(as_object(ents.v[i]).x)]))
    ELSE Err(DatabaseError(ents.e))

get_multiple_entries(ents) ==
    IF ents.res = "Ok"
    THEN \* datum.as_object().unwrap() on every element, in order
         IF \E i \in DOMAIN ents.v : ~as_object(ents.v[i]).some THEN Panic
         ELSE Ok(ListValue([i \in DOMAIN ents.v |->
                    convert_json_to_juniper_value(as_object(ents.v[i]).x)]))
    ELSE Err(DatabaseError(ents.e))

(***************************************************************************)
(* Query arguments: juniper::InputValue over a ScalarValue                 *)
(***************************************************************************)
ScalarInt(i) == [iv |-> "Scalar", sk |-> "Int", i |-> i]
ScalarFloat(f) == [iv |-> "Scalar", sk |-> "Float", f |-> f]
ScalarString(s) == [iv |-> "Scalar", sk |-> "String", s |-> s]
ScalarBoolean(b) == [iv |-> "Scalar", sk |-> "Boolean", b |-> b]

InputValues ==
    { ScalarInt(1965), ScalarFloat("1.5"), ScalarString("Dune"),
      ScalarBoolean(TRUE),
      [iv |-> "Null"], [iv |-> "Enum"], [iv |-> "List"], [iv |-> "Object"] }

\* ScalarValue::as_int / as_float / as_string
as_int(s) == IF s.sk = "Int" THEN Some(s.i) ELSE Nothing
as_float(s) ==
    CASE s.sk = "Int" -> Some([from_int |-> s.i])
      [] s.sk = "Float" -> Some(s.f)
      [] OTHER -> Nothing
as_string(s) == IF s.sk = "String" THEN Some(s.s) ELSE Nothing

\* the value handed to bind_var, with the Rust type it is bound as
BindInt(x) == [as |-> "i32", i |-> x]
BindFloat(x) == [as |-> "f64", f |-> x]
BindStr(x) == [as |-> "String", s |-> x]

ArgNames == {"title", "year"}

\* HashMap<String, InputValue<S>>: a function from the supplied names
ArgMaps == UNION { [names -> InputValues] : names \in SUBSET ArgNames }

\* the orders in which a HashMap with these keys may be iterated
Orders(keys) ==
    { o \in [1..Cardinality(keys) -> keys] :
        \A i, j \in DOMAIN o : i # j => o[i] # o[j] }

QueryIds == {"q1", "q2"}

\* AQLQuery::get_argument_key: the placeholder of a logical argument,
\* qualified by the query it belongs to
get_argument_key(query, name) == [ns |-> query, name |-> name]

\* the key of the collection bind, "@collection"
CollectionKey == [ns |-> "", name |-> "@collection"]

\* one iteration of the binding loop: the bind_var call it makes, if any
BindOf(query, key, value) ==
    IF value.iv = "Scalar"
    THEN IF as_int(value).some
         THEN <<<<get_argument_key(query, key), BindInt(as_int(value).x)>>>>
         ELSE IF as_float(value).some
         THEN <<<<get_argument_key(query, key), BindFloat(as_float(value).x)>>>>
         ELSE IF as_string(value).some
         THEN <<<<get_argument_key(query, key), BindStr(as_string(value).x)>>>>
         ELSE <<>>
    ELSE <<>>

\* one iteration of the binding loop: the WARN line it prints, if any
WarnOf(key, value) == IF value.iv = "Scalar" THEN <<>> ELSE <<key>>

\* the binding loop over query_arguments, iterated in the given order
RECURSIVE BindLoop(_, _, _)
BindLoop(query, args, order) ==
    IF order = <<>> THEN [binds |-> <<>>, warns |-> <<>>]
    ELSE LET rest == BindLoop(query, args, Tail(order))
             key == Head(order)
         IN [binds |-> BindOf(query, key, args[key]) \o rest.binds,
             warns |-> WarnOf(key, args[key]) \o rest.warns]

\* a builder that binds arguments under their bare names
BareNameBuilder(query, collection, args, order) ==
    <<<<CollectionKey, BindStr(collection)>>>>
        \o [i \in DOMAIN BindLoop(query, args, order).binds |->
              <<[ns |-> "", name |-> BindLoop(query, args, order).binds[i][1].name],
                BindLoop(query, args, order).binds[i][2]>>]

\* AqlQuery::builder().query(..).bind_var("@collection", collection), then
\* the binds of the loop
BuildBinds(query, collection, args, order) ==
    <<<<CollectionKey, BindStr(collection)>>>> \o BindLoop(query, args, order).binds

(***************************************************************************)
(* The backing store's replies                                             *)
(***************************************************************************)
\* the longest document list the store returns
MaxDocs == 2

Seven == [kind |-> "PosInt", n |-> <<0, 0, 0, 7>>]
FiveBillion == [kind |-> "PosInt", n |-> <<0, 1, 10757, 61952>>]
MinusOne == [kind |-> "NegInt", n |-> <<LimbTop, LimbTop, LimbTop, LimbTop>>]

Dune ==
    JObject(<<<<"title", JString("Dune")>>, <<"year", JNumber(Seven)>>>>)
BigBook ==
    JObject(<<<<"title", JString("Big")>>,
              <<"year", JNumber(FiveBillion)>>,
              <<"tags", JArray(<<JString("a"), JNull, JBool(TRUE)>>)>>,
              <<"meta", JObject(<<<<"delta", JNumber(MinusOne)>>,
                                  <<"ratio", JNumber([kind |-> "Float", f |-> "1.5"])>>>>)>>>>)
EmptyDoc == JObject(<<>>)

\* what an AQL query may return per row: documents, but also bare values
StoreRows == {Dune, BigBook, EmptyDoc, JNumber(Seven)}

RowLists == UNION { [1..n -> StoreRows] : n \in 0..MaxDocs }

\* ClientError, by its Display text
ClientErrors == {"connection refused", "AQL: syntax error"}

\* Result<Vec<JsonValue>, ClientError>
StoreReplies == { Ok(l) : l \in RowLists } \cup { Err(e) : e \in ClientErrors }

Entities == {"Book", "Author"}
Collections == {"books", "authors"}

(***************************************************************************)
(* execute_query and execute_internal_query                                *)
(***************************************************************************)
execVars == <<exec, binds, warns, store_calls, entries, outcome>>

ExecInit ==
    /\ exec = None
    /\ binds = <<>>
    /\ warns = <<>>
    /\ store_calls = 0
    /\ entries = None
    /\ outcome = None

\* execute_query up to the point where it awaits the store
ExecuteQuery ==
    /\ exec = None
    /\ \E query \in QueryIds, entity \in Entities, collection \in Collections,
          return_type \in {"Single", "Multiple"}, args \in ArgMaps :
         \E order \in Orders(DOMAIN args) :
            /\ exec' = [fn |-> "execute_query", query |-> query, entity |-> entity,
                        collection |-> collection, return_type |-> return_type,
                        args |-> args]
            /\ binds' = BuildBinds(query, collection, args, order)
            /\ warns' = BindLoop(query, args, order).warns
    /\ store_calls' = store_calls + 1
    /\ UNCHANGED <<entries, outcome>>

\* execute_internal_query up to the point where it awaits the store
ExecuteInternalQuery ==
    /\ exec = None
    /\ \E query \in QueryIds, collection \in Collections, args \in ArgMaps :
         \E order \in Orders(DOMAIN args) :
            /\ exec' = [fn |-> "execute_internal_query", query |-> query,
                        entity |-> "", collection |-> collection,
                        return_type |-> "", args |-> args]
            /\ binds' = BuildBinds(query, collection, args, order)
            /\ warns' = BindLoop(query, args, order).warns
    /\ store_calls' = store_calls + 1
    /\ UNCHANGED <<entries, outcome>>

\* the tail of execute_query: match return_type
ShapeResult(return_type, ents, entity_name) ==
    IF return_type = "Single" THEN get_single_entry(ents, entity_name)
    ELSE get_multiple_entries(ents)

\* the tail of execute_internal_query: entries.unwrap()
UnwrapEntries(ents) == IF ents.res = "Ok" THEN Ok(ents.v) ELSE Panic

\* the store answers execute_query, which shapes the reply and returns
QueryReturns ==
    /\ exec # None
    /\ exec.fn = "execute_query"
    /\ entries = None
    /\ \E reply \in StoreReplies :
         /\ entries' = reply
         /\ outcome' = ShapeResult(exec.return_type, reply, exec.entity)
    /\ UNCHANGED <<exec, binds, warns, store_calls>>

\* the store answers execute_internal_query, which unwraps the reply
InternalQueryReturns ==
    /\ exec # None
    /\ exec.fn = "execute_internal_query"
    /\ entries = None
    /\ \E reply \in StoreReplies :
         /\ entries' = reply
         /\ outcome' = UnwrapEntries(reply)
    /\ UNCHANGED <<exec, binds, warns, store_calls>>

(***************************************************************************)
(* The operation registry                                                  *)
(***************************************************************************)
\* how many times register_entity is called while the registry is built
MaxRegistrations == 3

EntityNames == {"Book", "Author", "Shelf"}

\* DbEntity: a name and its properties
DbEntities == [name : EntityNames, properties : {<<"title">>, <<"title", "year">>}]

\* Vec<DbRelationship>
RelationshipLists == {<<>>, <<"wrote">>}

\* OperationData { entity, relationships }
OperationData(entity, relationships) ==
    [entity |-> entity, relationships |-> relationships]

\* the register::<T>(data, kind) calls of register_entity, in order, but
\* without the last one
ImplsWithoutCreate ==
    << [T |-> "Get", kind |-> "Query"],
       [T |-> "GetAll", kind |-> "Query"],
       [T |-> "Update", kind |-> "Mutation"],
       [T |-> "UpdateAll", kind |-> "Mutation"],
       [T |-> "Remove", kind |-> "Mutation"],
       [T |-> "RemoveAll", kind |-> "Mutation"] >>

\* the register::<T>(data, kind) calls of register_entity, in order
OperationImpls ==
    << [T |-> "Get", kind |-> "Query"],
       [T |-> "GetAll", kind |-> "Query"],
       [T |-> "Update", kind |-> "Mutation"],
       [T |-> "UpdateAll", kind |-> "Mutation"],
       [T |-> "Remove", kind |-> "Mutation"],
       [T |-> "RemoveAll", kind |-> "Mutation"],
       [T |-> "Create", kind |-> "Mutation"] >>

\* T::get_operation_name(&data): a key derived from the entity name and the
\* implementation
get_operation_name(T, data) == [op |-> T, entity |-> data.entity.name]

\* HashMap::insert: the value under an existing key is replaced
Insert(map, k, v) == [x \in DOMAIN map \cup {k} |-> IF x = k THEN v ELSE map[x]]

\* OperationEntry { closure, arguments_closure, field_closure, data, kind }
OperationEntry(T, data, kind) == [closure |-> T, data |-> data, kind |-> kind]

\* OperationRegistry::register::<T>: the operations map after the call
register(ops, T, data, kind) ==
    Insert(ops, get_operation_name(T, data), OperationEntry(T, data, kind))

\* the register calls of register_entity, one after the other
RECURSIVE RegisterEach(_, _, _)
RegisterEach(ops, impls, data) ==
    IF impls = <<>> THEN ops
    ELSE RegisterEach(register(ops, Head(impls).T, data, Head(impls).kind),
                      Tail(impls), data)

regVars == <<operation_data, operations, registrations>>

\* OperationRegistry::new
RegInit ==
    /\ operation_data = <<>>
    /\ operations = <<>>
    /\ registrations = 0

\* OperationRegistry::register_entity(entity, relationships): the registry
\* after the call
register_entity(reg, entity, relationships) ==
    LET data == OperationData(entity, relationships)
    IN  [operation_data |-> Insert(reg.operation_data, entity.name, data),
         operations |-> RegisterEach(reg.operations, OperationImpls, data)]

RegisterEntity ==
    /\ registrations < MaxRegistrations
    /\ \E entity \in DbEntities, relationships \in RelationshipLists :
          LET reg == register_entity([operation_data |-> operation_data,
                                      operations |-> operations],
                                     entity, relationships)
          IN  /\ operation_data' = reg.operation_data
              /\ operations' = reg.operations
    /\ registrations' = registrations + 1

(***************************************************************************)
(* Field synthesis (schema/mod.rs)                                         *)
(***************************************************************************)
\* the deepest Array nesting of a property's ScalarType
MaxNesting == 2
\* the most properties an entity has
MaxProperties == 2

LeafTypes == {"Enum", "String", "Object", "Float", "Int", "Boolean"}

\* ScalarType: a leaf, or Array(ScalarType)
Leaf(l) == [st |-> "Leaf", leaf |-> l]
Array(t) == [st |-> "Array", of |-> t]

RECURSIVE Nested(_, _)
Nested(l, depth) == IF depth = 0 THEN Leaf(l) ELSE Array(Nested(l, depth - 1))

ScalarTypes == { Nested(l, d) : l \in LeafTypes, d \in 0..MaxNesting }

\* GraphQLProperty { name, scalar_type, required }
GraphQLProperties ==
    [name : {"title"}, scalar_type : ScalarTypes, required : BOOLEAN]

\* juniper::Type
Named(n) == [t |-> "Named", name |-> n]
NonNullNamed(n) == [t |-> "NonNullNamed", name |-> n]
List(ty) == [t |-> "List", of |-> ty]
NonNullList(ty) == [t |-> "NonNullList", of |-> ty]

\* juniper::meta::Field: its name and its type
Field(name, field_type) == [name |-> name, field_type |-> field_type]

\* the GraphQL name of the Rust type T that a leaf is built with
TypeNameOf(leaf) ==
    CASE leaf \in {"Enum", "String", "Object"} -> "String"
      [] leaf = "Float" -> "Float"
      [] leaf = "Int" -> "Int"
      [] leaf = "Boolean" -> "Boolean"

\* the inner fn build_field::<T, S>(registry, property, required)
build_field(T, property, required) ==
    LET is_array == property.scalar_type.st = "Array"
    IN  IF required /\ ~is_array
        THEN Field(property.name, NonNullNamed(T))
        ELSE Field(property.name, Named(T))

\* a synthesis that hands enforce_required down to the nested levels
RECURSIVE EnforceAllLevels(_, _, _)
EnforceAllLevels(property, scalar_type, enforce_required) ==
    IF scalar_type.st = "Array"
    THEN LET field == EnforceAllLevels(property, scalar_type.of, enforce_required)
         IN  IF property.required /\ enforce_required
             THEN Field(field.name, NonNullList(field.field_type))
             ELSE Field(field.name, List(field.field_type))
    ELSE build_field(TypeNameOf(scalar_type.leaf), property, property.required)

RECURSIVE build_field_from_property(_, _, _)
build_field_from_property(property, scalar_type, enforce_required) ==
    IF scalar_type.st = "Array"
    THEN LET field == build_field_from_property(property, scalar_type.of, FALSE)
         IN  IF property.required /\ enforce_required
             THEN Field(field.name, NonNullList(field.field_type))
             ELSE Field(field.name, List(field.field_type))
    ELSE build_field(TypeNameOf(scalar_type.leaf), property, property.required)

fieldVars == <<field_call, built_fields>>

FieldInit == field_call = None /\ built_fields = <<>>

\* a call of build_field_from_property on a property and its scalar type
BuildFieldFromProperty ==
    /\ field_call = None
    /\ \E property \in GraphQLProperties, enforce_required \in BOOLEAN :
          /\ field_call' = [fn |-> "build_field_from_property",
                            properties |-> <<property>>,
                            enforce_required |-> enforce_required]
          /\ built_fields' = <<build_field_from_property(property, property.scalar_type,
                                                   enforce_required)>>

\* QueryField::meta: one field per property of the type, non-null enforced
QueryFieldMeta ==
    /\ field_call = None
    /\ \E n \in 0..MaxProperties : \E properties \in [1..n -> GraphQLProperties] :
          /\ field_call' = [fn |-> "QueryField::meta", properties |-> properties,
                            enforce_required |-> TRUE]
          /\ built_fields' = [i \in 1..n |->
                          build_field_from_property(properties[i],
                                                    properties[i].scalar_type, TRUE)]

(***************************************************************************)
(* The equality filter over a key/value map                                *)
(***************************************************************************)
\* how many different attribute names a filter is built over
MaxKeys == 3

KeyPool == <<"_key", "title", "year", "isbn", "author", "pages">>
FilterKeys == { KeyPool[i] : i \in 1..MaxKeys }

FilterValues == { ScalarInt(1965), ScalarString("Dune"), [iv |-> "List"] }

\* HashMap<String, InputValue<S>>
AttributeMaps == UNION { [keys -> FilterValues] : keys \in SUBSET FilterKeys }

\* AQL nodes
AQLQueryParameter(name) == [node |-> "QueryParameter", name |-> name]
AQLQueryBind(name) == [node |-> "QueryBind", name |-> name]
AQLFilterOperation(left, op, right) ==
    [node |-> "FilterOperation", left_node |-> left, operation |-> op,
     right_node |-> right]
AQLLogicalFilter(op, nodes) ==
    [node |-> "LogicalFilter", operation |-> op, nodes |-> nodes]

\* a filter that binds every key to the same placeholder
SharedBindFilter(attributes, order) ==
    AQLLogicalFilter("AND",
        [i \in DOMAIN order |->
            AQLFilterOperation(AQLQueryParameter(order[i]), "Equal",
                               AQLQueryBind("value"))])

\* get_filter_by_indices_attributes, the map iterated in the given order
get_filter_by_indices_attributes(attributes, order) ==
    AQLLogicalFilter("AND",
        [i \in DOMAIN order |->
            AQLFilterOperation(AQLQueryParameter(order[i]), "Equal",
                               AQLQueryBind(order[i]))])

filterVars == <<filter_in, filter_out>>

FilterInit == filter_in = None /\ filter_out = None

GetFilterByIndicesAttributes ==
    /\ filter_out = None
    /\ \E attrs \in AttributeMaps : \E order \in Orders(DOMAIN attrs) :
          /\ filter_in' = attrs
          /\ filter_out' = get_filter_by_indices_attributes(attrs, order)

(***************************************************************************)
(* Schema construction and the HTTP handler (schema/mod.rs, server.rs)     *)
(***************************************************************************)
Requests == {"r1", "r2", "r3"}
Workers == {"w1", "w2"}

\* the type lists (Self::TypeInfo of Query) the schema may be built from
BookType == [name |-> "Book", properties |-> <<"title", "year">>]
AuthorType == [name |-> "Author", properties |-> <<"title">>]
TypeInfos == {<<BookType>>, <<BookType, AuthorType>>, <<AuthorType, BookType>>}

Free == "free"

serverVars == <<phase, schema_lock, poisoned, pc, worker>>

ServerInit ==
    /\ phase = "boot"
    /\ schema_lock = Free
    /\ poisoned = FALSE
    /\ pc = [r \in Requests |-> "none"]
    /\ worker = [r \in Requests |-> "none"]

\* the loop of Query::meta: register_entity for every type of info
RECURSIVE RegisterTypes(_, _)
RegisterTypes(reg, info) ==
    IF info = <<>> THEN reg
    ELSE RegisterTypes(register_entity(reg, Head(info), <<>>), Tail(info))

\* schema(map): RootNode::new_with_info runs Query::meta once
BuildSchema ==
    /\ phase = "boot"
    /\ \E info \in TypeInfos :
          LET reg == RegisterTypes([operation_data |-> operation_data,
                                    operations |-> operations], info)
          IN  /\ operation_data' = reg.operation_data
              /\ operations' = reg.operations
              /\ registrations' = registrations + Len(info)
    /\ phase' = "serving"
    /\ UNCHANGED <<schema_lock, poisoned, pc, worker>>

\* a worker thread is stuck inside Mutex::lock on behalf of one of its tasks
ThreadBlocked(w) == \E r \in Requests : worker[r] = w /\ pc[r] = "blocked"

\* a request is routed to a worker, which creates the handler's task
Arrive(r) ==
    /\ phase = "serving"
    /\ pc[r] = "none"
    /\ \E w \in Workers : worker' = [worker EXCEPT ![r] = w]
    /\ pc' = [pc EXCEPT ![r] = "start"]
    /\ UNCHANGED <<phase, schema_lock, poisoned, regVars>>

\* graphql_api_route: schema.lock().unwrap() with the mutex free
LockFree(r) ==
    /\ pc[r] = "start"
    /\ ~ThreadBlocked(worker[r])
    /\ schema_lock = Free
    /\ IF poisoned
       THEN \* lock() returns Err(PoisonError), unwrap panics, the guard is dropped
            /\ pc' = [pc EXCEPT ![r] = "panicked"]
            /\ UNCHANGED schema_lock
       ELSE \* the guard lives until the awaited graphql_handler has returned
            /\ pc' = [pc EXCEPT ![r] = "in_flight"]
            /\ schema_lock' = r
    /\ UNCHANGED <<phase, poisoned, worker, regVars>>

\* graphql_api_route: schema.lock() while a task of another thread holds the
\* mutex: the calling thread blocks
LockHeldElsewhere(r) ==
    /\ pc[r] = "start"
    /\ ~ThreadBlocked(worker[r])
    /\ schema_lock # Free
    /\ worker[schema_lock] # worker[r]
    /\ pc' = [pc EXCEPT ![r] = "blocked"]
    /\ UNCHANGED <<phase, schema_lock, poisoned, worker, regVars>>

\* graphql_api_route: schema.lock() while a suspended task of the same thread
\* holds the mutex: the call never returns, it deadlocks or panics
LockHeldBySameThread(r) ==
    /\ pc[r] = "start"
    /\ ~ThreadBlocked(worker[r])
    /\ schema_lock # Free
    /\ worker[schema_lock] = worker[r]
    /\ \E result \in {"blocked", "panicked"} : pc' = [pc EXCEPT ![r] = result]
    /\ UNCHANGED <<phase, schema_lock, poisoned, worker, regVars>>

\* a thread blocked in lock() gets the mutex once its holder has released it
Acquire(r) ==
    /\ pc[r] = "blocked"
    /\ schema_lock = Free
    /\ IF poisoned
       THEN /\ pc' = [pc EXCEPT ![r] = "panicked"]
            /\ UNCHANGED schema_lock
       ELSE /\ pc' = [pc EXCEPT ![r] = "in_flight"]
            /\ schema_lock' = r
    /\ UNCHANGED <<phase, poisoned, worker, regVars>>

\* graphql_handler returns a response (no field of Query was resolved); the
\* guard is dropped at the end of the handler
Respond(r) ==
    /\ pc[r] = "in_flight"
    /\ ~ThreadBlocked(worker[r])
    /\ pc' = [pc EXCEPT ![r] = "done"]
    /\ schema_lock' = Free
    /\ UNCHANGED <<phase, poisoned, worker, regVars>>

\* graphql_handler resolves a field of Query: resolve_field_async is todo!(),
\* the panic unwinds through the guard and poisons the mutex
ResolveField(r) ==
    /\ pc[r] = "in_flight"
    /\ ~ThreadBlocked(worker[r])
    /\ pc' = [pc EXCEPT ![r] = "panicked"]
    /\ schema_lock' = Free
    /\ poisoned' = TRUE
    /\ UNCHANGED <<phase, worker, regVars>>

(***************************************************************************)
(* Specifications                                                          *)
(***************************************************************************)
numVars == <<num_in, num_out>>

NumInit == num_in \in JsonNumbers /\ num_out = None

NumIdle == num_in = None /\ num_out = None

ConvertNumber ==
    /\ num_out = None
    /\ num_in # None
    /\ num_out' = convert_number(num_in)
    /\ UNCHANGED num_in

vars == <<numVars, execVars, regVars, fieldVars, filterVars, serverVars>>

\* the execution pipeline
Init == ExecInit /\ NumIdle /\ RegInit /\ FieldInit /\ FilterInit /\ ServerInit
Next ==
    \/ ExecuteQuery /\ UNCHANGED <<numVars, regVars, fieldVars, filterVars, serverVars>>
    \/ ExecuteInternalQuery
          /\ UNCHANGED <<numVars, regVars, fieldVars, filterVars, serverVars>>
    \/ QueryReturns /\ UNCHANGED <<numVars, regVars, fieldVars, filterVars, serverVars>>
    \/ InternalQueryReturns
          /\ UNCHANGED <<numVars, regVars, fieldVars, filterVars, serverVars>>
Spec == Init /\ [][Next]_vars

\* the number conversion on its own
InitNumber == NumInit /\ ExecInit /\ RegInit /\ FieldInit /\ FilterInit /\ ServerInit
NextNumber ==
    ConvertNumber /\ UNCHANGED <<execVars, regVars, fieldVars, filterVars, serverVars>>
SpecNumber == InitNumber /\ [][NextNumber]_vars

\* building the registry by register_entity calls
InitRegistry == Init
NextRegistry ==
    RegisterEntity /\ UNCHANGED <<numVars, execVars, fieldVars, filterVars, serverVars>>
SpecRegistry == InitRegistry /\ [][NextRegistry]_vars

\* field synthesis
InitFields == Init
NextFields ==
    \/ BuildFieldFromProperty
          /\ UNCHANGED <<numVars, execVars, regVars, filterVars, serverVars>>
    \/ QueryFieldMeta /\ UNCHANGED <<numVars, execVars, regVars, filterVars, serverVars>>
SpecFields == InitFields /\ [][NextFields]_vars

\* filter construction
InitFilter == Init
NextFilter ==
    GetFilterByIndicesAttributes
        /\ UNCHANGED <<numVars, execVars, regVars, fieldVars, serverVars>>
SpecFilter == InitFilter /\ [][NextFilter]_vars

\* schema construction, then the HTTP handler serving requests
InitServer == Init
NextServer ==
    \/ BuildSchema /\ UNCHANGED <<numVars, execVars, fieldVars, filterVars>>
    \/ \E r \in Requests :
          Arrive(r) /\ UNCHANGED <<numVars, execVars, fieldVars, filterVars>>
    \/ \E r \in Requests :
          LockFree(r) /\ UNCHANGED <<numVars, execVars, fieldVars, filterVars>>
    \/ \E r \in Requests :
          LockHeldElsewhere(r) /\ UNCHANGED <<numVars, execVars, fieldVars, filterVars>>
    \/ \E r \in Requests :
          LockHeldBySameThread(r)
              /\ UNCHANGED <<numVars, execVars, fieldVars, filterVars>>
    \/ \E r \in Requests :
          Acquire(r) /\ UNCHANGED <<numVars, execVars, fieldVars, filterVars>>
    \/ \E r \in Requests :
          Respond(r) /\ UNCHANGED <<numVars, execVars, fieldVars, filterVars>>
    \/ \E r \in Requests :
          ResolveField(r) /\ UNCHANGED <<numVars, execVars, fieldVars, filterVars>>
SpecServer == InitServer /\ [][NextServer]_vars

(***************************************************************************)
(* C4                                                                      *)
(***************************************************************************)
\* the mathematical value of an integral number lies in [-2^31, 2^31 - 1]
InI32Range(n) ==
    IF n.kind = "PosInt"
    THEN n.n[1] = 0 /\ n.n[2] = 0 /\ n.n[3] < LimbSign
    ELSE n.n[1] = LimbTop /\ n.n[2] = LimbTop /\ n.n[3] >= LimbSign

\* the mathematical value of an integral number that is in the 32-bit range
MathValue(n) ==
    IF n.kind = "PosInt" THEN n.n[3] * LimbBase + n.n[4]
    ELSE (-((LimbTop - n.n[3]) * LimbBase + (LimbTop - n.n[4]))) - 1


\* C4: an integral number in the signed 32-bit range converts to itself, one
\* above the range converts to 2^31-1, one below converts to -2^31; the
\* conversion never wraps (5_000_000_000 gives 2147483647, -1 gives -1).
C4_Saturates ==
    (num_out # None /\ num_in.kind # "Float") =>
        /\ num_out.type = "Int"
        /\ InI32Range(num_in) => num_out.i = MathValue(num_in)
        /\ (~InI32Range(num_in) /\ num_in.kind = "PosInt") => num_out.i = I32Max
        /\ (~InI32Range(num_in) /\ num_in.kind = "NegInt") => num_out.i = I32Min
        /\ num_in = FiveBillion => num_out.i = 2147483647
        /\ num_in = MinusOne => num_out.i = -1

\* an out-of-range integral number has been converted
C4_Witness ==
    /\ num_in = FiveBillion
    /\ num_out = IntValue(I32Max)

(***************************************************************************)
(* C1, C2, C3, C8: the execution pipeline                                  *)
(***************************************************************************)
Returned(fn) == exec # None /\ exec.fn = fn /\ outcome # None

\* BigBook as a generic value: the year saturated, the rest element-wise
BigBookValue ==
    ObjectValue(<<<<"title", StringValue("Big")>>,
                  <<"year", IntValue(I32Max)>>,
                  <<"tags", ListValue(<<StringValue("a"), NullValue, BoolValue(TRUE)>>)>>,
                  <<"meta", ObjectValue(<<<<"delta", IntValue(-1)>>,
                                          <<"ratio", FloatValue("1.5")>>>>)>>>>)

\* C1: in Single mode a successful store reply with no documents yields the
\* NotFound field error of the entity, and a reply with one or more
\* documents yields the conversion of the first document.
C1_SingleShaping ==
    (Returned("execute_query") /\ exec.return_type = "Single" /\ entries.res = "Ok") =>
        IF entries.v = <<>>
        THEN outcome = Err([message |-> [fmt |-> "{} not found", arg |-> exec.entity],
                            extensions |-> NullValue])
        ELSE as_object(entries.v[1]).some =>
                /\ outcome = Ok(convert_json_to_juniper_value(entries.v[1].o))
                /\ entries.v[1] = BigBook => outcome.v = BigBookValue

\* Single mode answered with the first of two different documents
C1_Witness ==
    /\ Returned("execute_query") /\ exec.return_type = "Single"
    /\ entries = Ok(<<BigBook, Dune>>)
    /\ outcome = Ok(BigBookValue)

\* Single mode answered NotFound on an empty reply
C1_WitnessNotFound ==
    /\ Returned("execute_query") /\ exec.return_type = "Single"
    /\ entries = Ok(<<>>)
    /\ outcome.res = "Err"

\* C2: in Multiple mode a reply of n documents yields a successful list of
\* exactly n converted values in the store's order; n = 0 yields a
\* successful empty list.
C2_MultipleShaping ==
    (/\ Returned("execute_query") /\ exec.return_type = "Multiple"
     /\ entries.res = "Ok"
     /\ \A i \in DOMAIN entries.v : as_object(entries.v[i]).some) =>
        /\ outcome.res = "Ok"
        /\ outcome.v.type = "List"
        /\ Len(outcome.v.items) = Len(entries.v)
        /\ \A i \in DOMAIN entries.v :
              /\ outcome.v.items[i] = convert(entries.v[i])
              /\ entries.v[i] = BigBook => outcome.v.items[i] = BigBookValue
        /\ entries.v = <<>> => outcome = Ok(ListValue(<<>>))

\* Multiple mode answered with two different documents, in order
C2_Witness ==
    /\ Returned("execute_query") /\ exec.return_type = "Multiple"
    /\ entries = Ok(<<Dune, BigBook>>)
    /\ outcome.res = "Ok"
    /\ outcome.v.items[2] = BigBookValue

\* C3: on every query-execution path a failed store call ends in an error
\* outcome carrying the store's message, after a single store call.
C3_StoreFailureIsFieldError ==
    (exec # None /\ outcome # None /\ entries.res = "Err") =>
        /\ outcome = Err(DatabaseError(entries.e))
        /\ store_calls = 1

\* the binds attached under key k
BindsUnder(k) == { i \in DOMAIN binds : binds[i][1] = k }

\* the value a scalar argument is expected to be bound as
ExpectedBind(v) ==
    CASE v.sk = "Int" -> [as |-> "i32", i |-> v.i]
      [] v.sk = "Float" -> [as |-> "f64", f |-> v.f]
      [] v.sk = "String" -> [as |-> "String", s |-> v.s]

\* C8: every execution attaches the "@collection" bind of the collection,
\* exactly one bind under the argument key of every integer, float or string
\* argument, with its value, and no bind for a non-scalar argument, and the
\* query is sent to the store all the same.
C8_ArgumentBinding ==
    exec # None =>
        /\ Cardinality(BindsUnder(CollectionKey)) = 1
        /\ \A i \in BindsUnder(CollectionKey) :
              binds[i][2] = [as |-> "String", s |-> exec.collection]
        /\ \A name \in DOMAIN exec.args :
              LET v == exec.args[name]
                  hits == BindsUnder([ns |-> exec.query, name |-> name])
              IN  IF v.iv # "Scalar" THEN hits = {}
                  ELSE v.sk \in {"Int", "Float", "String"} =>
                          /\ Cardinality(hits) = 1
                          /\ \A i \in hits : binds[i][2] = ExpectedBind(v)
        /\ store_calls = 1

\* an execution with one string argument and one list argument was sent
C8_Witness ==
    /\ exec # None
    /\ DOMAIN exec.args = {"title", "year"}
    /\ exec.args["title"] = ScalarString("Dune")
    /\ exec.args["year"] = [iv |-> "List"]
    /\ Len(binds) = 2
    /\ store_calls = 1
    /\ entries # None

\* the argument names the WARN diagnostic reported
Warned == { warns[i] : i \in DOMAIN warns }

\* C11: once the query is sent to the store, every supplied argument,
\* whatever its value kind, is bound under its argument key or was reported
\* by the warning diagnostic.
C11_NoArgumentDroppedSilently ==
    (exec # None /\ store_calls >= 1) =>
        \A name \in DOMAIN exec.args :
            \/ BindsUnder([ns |-> exec.query, name |-> name]) # {}
            \/ name \in Warned

\* what the binding loop does guarantee: only a Boolean scalar is dropped
\* without a bind and without a diagnostic
OnlyBooleansDroppedSilently ==
    (exec # None /\ store_calls >= 1) =>
        \A name \in DOMAIN exec.args :
            \/ BindsUnder([ns |-> exec.query, name |-> name]) # {}
            \/ name \in Warned
            \/ exec.args[name] = ScalarBoolean(TRUE)

(***************************************************************************)
(* C5, C6: the registry                                                    *)
(***************************************************************************)
\* the operation keys registered for an entity name
KeysOf(name) == { k \in DOMAIN operations : operations[k].data.entity.name = name }

ImplNames == {"Get", "GetAll", "Update", "UpdateAll", "Remove", "RemoveAll", "Create"}

\* C5 (as amended): register_entity leaves exactly one OperationData and
\* exactly seven OperationEntry records for the entity, one per operation
\* implementation, all sharing that OperationData; one registration on an
\* empty registry leaves exactly 7 operations.
C5_SevenEntriesPerEntity ==
    /\ registrations = 1 =>
          /\ Cardinality(DOMAIN operations) = 7
          /\ Cardinality(DOMAIN operation_data) = 1
    /\ \A name \in DOMAIN operation_data :
          /\ Cardinality(KeysOf(name)) = 7
          /\ { operations[k].closure : k \in KeysOf(name) } = ImplNames
          /\ \A k \in KeysOf(name) : operations[k].data = operation_data[name]
    /\ \A k \in DOMAIN operations : operations[k].data.entity.name \in DOMAIN operation_data

\* C5 (original statement): one registration on an empty registry leaves exactly 6
\* operations, and every registered entity has exactly six entries.
C5_SixEntriesPerEntity ==
    /\ registrations = 1 => Cardinality(DOMAIN operations) = 6
    /\ \A name \in DOMAIN operation_data : Cardinality(KeysOf(name)) = 6

\* a single entity without relationships was registered on the empty registry
C5_Witness ==
    /\ registrations = 1
    /\ DOMAIN operation_data = {"Book"}
    /\ operation_data["Book"].relationships = <<>>
    /\ Cardinality(DOMAIN operations) = 7

\* C6: a registration never replaces an entry that is already in the
\* registry (there is no step on which startup aborts instead).
C6_NeverReplaced ==
    [][/\ \A k \in DOMAIN operations :
             k \in DOMAIN operations' /\ operations'[k] = operations[k]
       /\ \A n \in DOMAIN operation_data :
             n \in DOMAIN operation_data' /\ operation_data'[n] = operation_data[n]]_vars

(***************************************************************************)
(* C7: the registry and the schema while requests are served               *)
(***************************************************************************)
\* C7: once the schema is built, no step mutates the registry or takes an
\* exclusive lock, and no request waits for another one.
C7_ReadOnlyNoExclusiveLock ==
    [][phase = "serving" =>
          /\ UNCHANGED <<operation_data, operations>>
          /\ schema_lock' = Free
          /\ \A r \in Requests : pc'[r] # "blocked"]_vars

\* what the handler does instead: at most one request is in flight
RequestsSerialised ==
    \A r1, r2 \in Requests :
        (pc[r1] = "in_flight" /\ pc[r2] = "in_flight") => r1 = r2

\* the registry is not touched once the schema is built
RegistryFrozen ==
    [][phase = "serving" => UNCHANGED <<operation_data, operations>>]_vars

(***************************************************************************)
(* C9: field synthesis                                                     *)
(***************************************************************************)
IsList(ty) == ty.t \in {"List", "NonNullList"}

\* every list level from ty inwards is a nullable list
RECURSIVE ListsNullable(_)
ListsNullable(ty) == IsList(ty) => (ty.t = "List" /\ ListsNullable(ty.of))

RECURSIVE ListDepth(_)
ListDepth(ty) == IF IsList(ty) THEN 1 + ListDepth(ty.of) ELSE 0

RECURSIVE ArrayDepth(_)
ArrayDepth(st) == IF st.st = "Array" THEN 1 + ArrayDepth(st.of) ELSE 0

\* C9: for an Array property the outermost list type is non-null exactly
\* when the property is required and enforce_required is set, and every
\* nested list level is a nullable list; a non-array property gets a
\* non-null type exactly when it is required.
C9_ListNullability ==
    field_call # None =>
        \A i \in DOMAIN built_fields :
            LET p == field_call.properties[i]
                ty == built_fields[i].field_type
            IN  IF p.scalar_type.st = "Array"
                THEN /\ IsList(ty)
                     /\ ty.t = "NonNullList" <=> (p.required /\ field_call.enforce_required)
                     /\ ListsNullable(ty.of)
                     /\ ListDepth(ty) = ArrayDepth(p.scalar_type)
                ELSE /\ ~IsList(ty)
                     /\ ty.t = "NonNullNamed" <=> p.required

\* a required array of arrays was synthesized with enforcement
C9_Witness ==
    /\ field_call # None
    /\ field_call.enforce_required
    /\ field_call.properties =
          <<[name |-> "title", scalar_type |-> Array(Array(Leaf("Int"))),
             required |-> TRUE]>>
    /\ built_fields = <<Field("title", NonNullList(List(Named("Int"))))>>

(***************************************************************************)
(* C10: the equality filter                                                *)
(***************************************************************************)
\* C10: the filter over a map with N entries is one AND LogicalFilter with
\* exactly N FilterOperation nodes, one per key, each QueryParameter(key)
\* Equal QueryBind(key), no two sharing a bind name; N = 0 gives an AND
\* filter with no nodes.
C10_EqualityFilter ==
    filter_out # None =>
        /\ filter_out.node = "LogicalFilter"
        /\ filter_out.operation = "AND"
        /\ Len(filter_out.nodes) = Cardinality(DOMAIN filter_in)
        /\ \A i \in DOMAIN filter_out.nodes :
              \E k \in DOMAIN filter_in :
                 filter_out.nodes[i] =
                    [node |-> "FilterOperation",
                     left_node |-> [node |-> "QueryParameter", name |-> k],
                     operation |-> "Equal",
                     right_node |-> [node |-> "QueryBind", name |-> k]]
        /\ \A k \in DOMAIN filter_in :
              \E i \in DOMAIN filter_out.nodes : filter_out.nodes[i].left_node.name = k
        /\ \A i, j \in DOMAIN filter_out.nodes :
              i # j => filter_out.nodes[i].right_node.name # filter_out.nodes[j].right_node.name
        /\ DOMAIN filter_in = {} => filter_out.nodes = <<>>

\* a filter over three keys was built
C10_Witness ==
    /\ filter_out # None
    /\ Cardinality(DOMAIN filter_in) = 3
    /\ Len(filter_out.nodes) = 3

====
